---- MODULE Spec2Model ----
(***************************************************************************)
(* Model of autostarter/systems/linux.py: the Linux autostart manager.     *)
(*                                                                         *)
(* The host filesystem is the only state the program keeps.  It is         *)
(* modelled as a set of existing directories (dirs) and a partial map from *)
(* file paths to [mode, content] (fs).  Paths and file contents are the    *)
(* very strings the f-strings of the source build.  Each caller runs one   *)
(* call at a time; a call advances one filesystem operation per step, so   *)
(* that a failing or interleaved call is visible between its operations.   *)
(***************************************************************************)
EXTENDS Integers, Sequences, FiniteSets, TLC

VARIABLES
    dirs,     \* the directories that exist
    fs,       \* the regular files that exist: path -> [mode, content]
    pc,       \* per caller: the filesystem operation its call performs next
    call,     \* per caller: the operation and arguments of its current/last call
    ret,      \* per caller: how its last call ended (return value or raise)
    fh,       \* per caller: the file object held open by a with-block
    todo,     \* per caller: the paths remove_list has still to delete
    pre,      \* per caller: dirs and fs as they were when its call started
    budget    \* per caller: the number of calls it may still start

vars == <<dirs, fs, pc, call, ret, fh, todo, pre, budget>>

(***************************************************************************)
(* Bounds and input sets.                                                  *)
(***************************************************************************)
MaxCalls == 1            \* calls made from each prior state (Spec)
MaxSessionCalls == 3     \* calls made in a row on a fresh machine (SpecSession)
MaxRaceCalls == 1        \* calls of each of the two racing callers (SpecRace)

Callers == {1, 2}
Identifiers == {"build", "sync"}
ScriptLocations == {"/opt/build.sh"}
Interpreters == {"sh", "python3"}
Arguments == {"-v"}
Home == "/home/user"

(***************************************************************************)
(* Path resolution.                                                        *)
(***************************************************************************)
\* os.path.expanduser('~' + rest): the leading '~' becomes the home directory
expanduser(rest) == Home \o rest

_startup_folder_same(system_wide) == "/etc/init.d"

_startup_folder(system_wide) ==
    IF system_wide THEN "/etc/init.d" ELSE expanduser("/.config/autostart")

\* f'{start_dir}/{identifier}'
start_file(identifier, system_wide) ==
    _startup_folder(system_wide) \o "/" \o identifier

launcher_path(identifier, system_wide) ==
    start_file(identifier, system_wide) \o ".sh"

descriptor_path_typo(identifier, system_wide) ==
    start_file(identifier, system_wide) \o ".dekstop"

descriptor_path(identifier, system_wide) ==
    start_file(identifier, system_wide) \o ".desktop"

\* the directories os.makedirs walks (and creates when missing) to reach dir
PathPrefixes(dir) ==
    IF dir = "/etc/init.d"
    THEN {"/etc", "/etc/init.d"}
    ELSE {Home, Home \o "/.config", Home \o "/.config/autostart"}

\* the parent directory a file of the startup directory lives in
RootDirs == {"/etc", Home}

(***************************************************************************)
(* File contents and modes.                                                *)
(***************************************************************************)
ExecMode == 493        \* 0o755
DefaultMode == 420     \* 0o644: 0o666 masked by the usual umask 022

launcher_text_swapped(interpreter, script_location, arguments) ==
    "#!/bin/bash\n\n" \o script_location \o " " \o interpreter
        \o " " \o arguments \o "\n"

launcher_text(interpreter, script_location, arguments) ==
    "#!/bin/bash\n\n" \o interpreter \o " " \o script_location
        \o " " \o arguments \o "\n"

descriptor_text_noext(identifier, system_wide) ==
    "[Desktop Entry]\nType=Application\nName=" \o identifier
        \o "\nExec=" \o start_file(identifier, system_wide) \o "\n"

descriptor_text(identifier, system_wide) ==
    "[Desktop Entry]\nType=Application\nName=" \o identifier
        \o "\nExec=" \o start_file(identifier, system_wide) \o ".sh\n"

(***************************************************************************)
(* Filesystem primitives.                                                  *)
(***************************************************************************)
\* os.path.exists on a snapshot st = [dirs, fs]
path_exists(st, path) == path \in DOMAIN st.fs \/ path \in st.dirs

open_keep(files, path) ==
    IF path \in DOMAIN files
    THEN files
    ELSE [p \in DOMAIN files \cup {path} |->
            IF p = path THEN [mode |-> DefaultMode, content |-> ""] ELSE files[p]]

\* open(path, 'w'): create with the default mode, or truncate keeping the mode
open_w(files, path) ==
    IF path \in DOMAIN files
    THEN [files EXCEPT ![path] = [mode |-> files[path].mode, content |-> ""]]
    ELSE [p \in DOMAIN files \cup {path} |->
            IF p = path THEN [mode |-> DefaultMode, content |-> ""] ELSE files[p]]

\* f.write(text) flushed at the end of the with-block: the text lands at the
\* file position, which open left at the end of the (truncated) file
write_text(files, path, text) == [files EXCEPT ![path].content = @ \o text]

chmod_keep(files, path, mode) == files

\* os.chmod(path, mode)
chmod(files, path, mode) == [files EXCEPT ![path].mode = mode]

\* os.makedirs(dir, exist_ok=True)
makedirs(directories, dir) == directories \cup PathPrefixes(dir)

\* deleting one file
remove_file(files, path) == [p \in DOMAIN files \ {path} |-> files[p]]

NoHandle == [path |-> "", linked |-> FALSE]
NoCall == [op |-> "none", identifier |-> "", script_location |-> "",
           interpreter |-> "", system_wide |-> FALSE, arguments |-> ""]
NoRet == [kind |-> "none", value |-> "", at |-> ""]
Returned(v) == [kind |-> "return", value |-> v, at |-> ""]
Raised(e, step) == [kind |-> "raise", value |-> e, at |-> step]
Snapshot == [dirs |-> dirs, fs |-> fs]

(***************************************************************************)
(* check                                                                   *)
(***************************************************************************)
check_launcher(st, identifier, system_wide) ==
    LET start_sh == _startup_folder(system_wide) \o "/" \o identifier \o ".sh"
    IN  IF path_exists(st, start_sh) THEN TRUE ELSE FALSE

check_at(st, identifier, system_wide) ==
    LET start_desktop ==
            _startup_folder(system_wide) \o "/" \o identifier \o ".desktop"
    IN  IF path_exists(st, start_desktop) THEN TRUE ELSE FALSE

check(identifier, system_wide) == check_at(Snapshot, identifier, system_wide)

BoolStr(b) == IF b THEN "True" ELSE "False"

\* a whole call of check: one os.path.exists, no other filesystem operation
Check(c, identifier, system_wide) ==
    /\ pc[c] = "idle"
    /\ budget[c] > 0
    /\ budget' = [budget EXCEPT ![c] = @ - 1]
    /\ call' = [call EXCEPT ![c] = [NoCall EXCEPT !.op = "check",
                    !.identifier = identifier, !.system_wide = system_wide]]
    /\ pre' = [pre EXCEPT ![c] = Snapshot]
    /\ ret' = [ret EXCEPT ![c] = Returned(BoolStr(check(identifier, system_wide)))]
    /\ UNCHANGED <<dirs, fs, pc, fh, todo>>

(***************************************************************************)
(* add                                                                     *)
(***************************************************************************)
AddCall(c, identifier, script_location, interpreter, system_wide, arguments) ==
    /\ pc[c] = "idle"
    /\ budget[c] > 0
    /\ budget' = [budget EXCEPT ![c] = @ - 1]
    /\ call' = [call EXCEPT ![c] =
                    [op |-> "add", identifier |-> identifier,
                     script_location |-> script_location,
                     interpreter |-> interpreter,
                     system_wide |-> system_wide, arguments |-> arguments]]
    /\ pre' = [pre EXCEPT ![c] = Snapshot]
    /\ ret' = [ret EXCEPT ![c] = NoRet]
    /\ pc' = [pc EXCEPT ![c] = "makedirs"]
    /\ UNCHANGED <<dirs, fs, fh, todo>>

\* os.makedirs(start_dir, exist_ok=True)
AddMakedirs(c) ==
    /\ pc[c] = "makedirs"
    /\ dirs' = makedirs(dirs, _startup_folder(call[c].system_wide))
    /\ pc' = [pc EXCEPT ![c] = "open_sh"]
    /\ UNCHANGED <<fs, call, ret, fh, todo, pre, budget>>

\* open(path, 'w') of a with-block; FileNotFoundError when the directory is gone
OpenStep(c, here, path, dir, next) ==
    /\ pc[c] = here
    /\ IF dir \in dirs
       THEN /\ fs' = open_w(fs, path)
            /\ fh' = [fh EXCEPT ![c] = [path |-> path, linked |-> TRUE]]
            /\ pc' = [pc EXCEPT ![c] = next]
            /\ UNCHANGED ret
       ELSE /\ ret' = [ret EXCEPT ![c] = Raised("FileNotFoundError", here)]
            /\ pc' = [pc EXCEPT ![c] = "idle"]
            /\ UNCHANGED <<fs, fh>>
    /\ UNCHANGED <<dirs, call, todo, pre, budget>>

\* f.write(text) and the close of the with-block; a file unlinked meanwhile
\* takes the text with it
WriteStep(c, here, text, next, result) ==
    /\ pc[c] = here
    /\ fs' = IF fh[c].linked THEN write_text(fs, fh[c].path, text) ELSE fs
    /\ fh' = [fh EXCEPT ![c] = NoHandle]
    /\ pc' = [pc EXCEPT ![c] = next]
    /\ ret' = [ret EXCEPT ![c] = result]
    /\ UNCHANGED <<dirs, call, todo, pre, budget>>

AddOpenLauncher(c) ==
    OpenStep(c, "open_sh",
             launcher_path(call[c].identifier, call[c].system_wide),
             _startup_folder(call[c].system_wide), "write_sh")

AddWriteLauncher(c) ==
    WriteStep(c, "write_sh",
              launcher_text(call[c].interpreter, call[c].script_location,
                            call[c].arguments),
              "chmod", ret[c])

\* os.chmod(f'{start_file}.sh', 0o755)
AddChmod(c) ==
    LET path == launcher_path(call[c].identifier, call[c].system_wide) IN
    /\ pc[c] = "chmod"
    /\ IF path \in DOMAIN fs
       THEN /\ fs' = chmod(fs, path, ExecMode)
            /\ pc' = [pc EXCEPT ![c] = "open_desktop"]
            /\ UNCHANGED ret
       ELSE /\ ret' = [ret EXCEPT ![c] = Raised("FileNotFoundError", "chmod")]
            /\ pc' = [pc EXCEPT ![c] = "idle"]
            /\ UNCHANGED fs
    /\ UNCHANGED <<dirs, call, fh, todo, pre, budget>>

AddOpenDescriptor(c) ==
    OpenStep(c, "open_desktop",
             descriptor_path(call[c].identifier, call[c].system_wide),
             _startup_folder(call[c].system_wide), "write_desktop")

AddWriteDescriptor(c) ==
    WriteStep(c, "write_desktop",
              descriptor_text(call[c].identifier, call[c].system_wide),
              "idle", Returned("None"))

\* the steps of add at which the filesystem may refuse the operation
AddSteps == {"makedirs", "open_sh", "write_sh", "chmod", "open_desktop",
             "write_desktop"}

(***************************************************************************)
(* remove                                                                  *)
(***************************************************************************)
to_delete_flipped(identifier, system_wide) ==
    << _startup_folder(~system_wide) \o "/" \o identifier \o ".sh",
       _startup_folder(~system_wide) \o "/" \o identifier \o ".desktop" >>

to_delete_launcher_only(identifier, system_wide) ==
    << _startup_folder(system_wide) \o "/" \o identifier \o ".sh" >>

to_delete_descriptor_only(identifier, system_wide) ==
    << _startup_folder(system_wide) \o "/" \o identifier \o ".desktop" >>

to_delete(identifier, system_wide) ==
    << _startup_folder(system_wide) \o "/" \o identifier \o ".sh",
       _startup_folder(system_wide) \o "/" \o identifier \o ".desktop" >>

RemoveCall(c, identifier, system_wide) ==
    /\ pc[c] = "idle"
    /\ budget[c] > 0
    /\ budget' = [budget EXCEPT ![c] = @ - 1]
    /\ call' = [call EXCEPT ![c] = [NoCall EXCEPT !.op = "remove",
                    !.identifier = identifier, !.system_wide = system_wide]]
    /\ pre' = [pre EXCEPT ![c] = Snapshot]
    /\ ret' = [ret EXCEPT ![c] = NoRet]
    /\ todo' = [todo EXCEPT ![c] = to_delete(identifier, system_wide)]
    /\ pc' = [pc EXCEPT ![c] = "remove_list"]
    /\ UNCHANGED <<dirs, fs, fh>>

remove_list_result_false == "False"

\* util.remove_list's verdict once every path was deleted or found missing
remove_list_result == "True"

\* util.remove_list, one path per step: delete it when it exists, pass over
\* it when it does not; return after the last path
RemoveListStep(c) ==
    /\ pc[c] = "remove_list"
    /\ todo[c] # <<>>
    /\ LET path == Head(todo[c]) IN
        /\ fs' = IF path \in DOMAIN fs THEN remove_file(fs, path) ELSE fs
        /\ fh' = [d \in Callers |->
                    IF fh[d].path = path THEN [fh[d] EXCEPT !.linked = FALSE]
                    ELSE fh[d]]
    /\ todo' = [todo EXCEPT ![c] = Tail(@)]
    /\ IF Len(todo[c]) = 1
       THEN /\ pc' = [pc EXCEPT ![c] = "idle"]
            /\ ret' = [ret EXCEPT ![c] = Returned(remove_list_result)]
       ELSE UNCHANGED <<pc, ret>>
    /\ UNCHANGED <<dirs, call, pre, budget>>

(***************************************************************************)
(* Filesystem failures: permission denied, disk full, read-only mount.     *)
(* Neither add nor remove catches them; the call ends where it stands.     *)
(***************************************************************************)
Fail(c) ==
    /\ pc[c] \in AddSteps \cup {"remove_list"}
    /\ ret' = [ret EXCEPT ![c] = Raised("OSError", pc[c])]
    /\ pc' = [pc EXCEPT ![c] = "idle"]
    /\ fh' = [fh EXCEPT ![c] = NoHandle]
    /\ todo' = [todo EXCEPT ![c] = <<>>]
    /\ UNCHANGED <<dirs, fs, call, pre, budget>>

(***************************************************************************)
(* Initial states and specifications.                                      *)
(***************************************************************************)
Scopes == BOOLEAN
AllPaths ==
    {launcher_path(i, s) : i \in Identifiers, s \in Scopes}
        \cup {descriptor_path(i, s) : i \in Identifiers, s \in Scopes}

\* what an earlier add(identifier, '/opt/build.sh') left in the directory
PriorFile(path) ==
    IF \E i \in Identifiers, s \in Scopes : path = launcher_path(i, s)
    THEN [mode |-> ExecMode, content |-> launcher_text("sh", "/opt/build.sh", "")]
    ELSE [mode |-> DefaultMode,
          content |-> CHOOSE t \in {descriptor_text(i, s) :
                                      i \in Identifiers, s \in Scopes} :
                        \E i \in Identifiers, s \in Scopes :
                            /\ path = descriptor_path(i, s)
                            /\ t = descriptor_text(i, s)]

\* the startup directory a path of AllPaths lies in
DirOf(path) ==
    CHOOSE d \in {_startup_folder(s) : s \in Scopes} :
        \E i \in Identifiers, s \in Scopes :
            /\ d = _startup_folder(s)
            /\ path \in {launcher_path(i, s), descriptor_path(i, s)}

DirStates ==
    {RootDirs \cup U \cup E :
        U \in {{}, PathPrefixes(_startup_folder(FALSE))},
        E \in {{}, PathPrefixes(_startup_folder(TRUE))}}

InitCallers(b1, b2) ==
    /\ pc = [c \in Callers |-> "idle"]
    /\ call = [c \in Callers |-> NoCall]
    /\ ret = [c \in Callers |-> NoRet]
    /\ fh = [c \in Callers |-> NoHandle]
    /\ todo = [c \in Callers |-> <<>>]
    /\ pre = [c \in Callers |-> Snapshot]
    /\ budget = [c \in Callers |-> IF c = 1 THEN b1 ELSE b2]

\* the files of a key that go together: a registration is both of them
Pair(i, s) == {launcher_path(i, s), descriptor_path(i, s)}

\* Prior contents of the startup directories: "build" in any state (no file,
\* a stray launcher, a stray descriptor, both), "sync" registered or not.
PriorFileSets ==
    {P \in SUBSET AllPaths :
        /\ \A p \in P : DirOf(p) \in dirs
        /\ \A s \in Scopes : Pair("sync", s) \subseteq P
                                \/ Pair("sync", s) \cap P = {}}

\* Spec: one caller, any prior state, filesystem failures possible
Init ==
    /\ dirs \in DirStates
    /\ \E P \in PriorFileSets : fs = [p \in P |-> PriorFile(p)]
    /\ InitCallers(MaxCalls, 0)

Step(c) ==
    \/ AddMakedirs(c)
    \/ AddOpenLauncher(c)
    \/ AddWriteLauncher(c)
    \/ AddChmod(c)
    \/ AddOpenDescriptor(c)
    \/ AddWriteDescriptor(c)
    \/ RemoveListStep(c)

Next ==
    \E c \in Callers :
        \/ \E i \in Identifiers, s \in Scopes : Check(c, i, s)
        \/ \E i \in Identifiers, p \in ScriptLocations, x \in Interpreters,
              s \in Scopes, a \in Arguments : AddCall(c, i, p, x, s, a)
        \/ \E i \in Identifiers, s \in Scopes : RemoveCall(c, i, s)
        \/ Step(c)
        \/ Fail(c)

Spec == Init /\ [][Next]_vars

\* SpecSession: one caller on a machine with no registration yet, every
\* filesystem operation succeeding
InitSession ==
    /\ dirs \in DirStates
    /\ fs = [p \in {} |-> PriorFile(p)]
    /\ InitCallers(MaxSessionCalls, 0)

NextSession ==
    \E c \in Callers :
        \/ \E i \in Identifiers, s \in Scopes : Check(c, i, s)
        \/ \E i \in Identifiers, p \in ScriptLocations, x \in Interpreters,
              s \in Scopes, a \in Arguments : AddCall(c, i, p, x, s, a)
        \/ \E i \in Identifiers, s \in Scopes : RemoveCall(c, i, s)
        \/ Step(c)

SpecSession == InitSession /\ [][NextSession]_vars

\* SpecRace: caller 1 installs while caller 2 uninstalls and checks, their
\* filesystem operations interleaved freely
InitRace ==
    /\ dirs \in {RootDirs, UNION DirStates}
    /\ \E P \in {{}, Pair("build", FALSE)} :
        /\ \A p \in P : DirOf(p) \in dirs
        /\ fs = [p \in P |-> PriorFile(p)]
    /\ InitCallers(MaxRaceCalls, MaxRaceCalls)

NextRace ==
    \/ \E i \in Identifiers, p \in ScriptLocations, x \in Interpreters,
          s \in Scopes, a \in Arguments : AddCall(1, i, p, x, s, a)
    \/ \E i \in Identifiers, s \in Scopes : RemoveCall(2, i, s)
    \/ \E i \in Identifiers, s \in Scopes : Check(2, i, s)
    \/ \E c \in Callers : Step(c)

SpecRace == InitRace /\ [][NextRace]_vars

(***************************************************************************)
(* Vocabulary of the properties.  The paths and texts below are written    *)
(* out as the documentation states them, not taken from the operators of   *)
(* the model above.                                                        *)
(***************************************************************************)
StartupDir(s) == IF s THEN "/etc/init.d" ELSE "/home/user/.config/autostart"
LauncherOf(i, s) == StartupDir(s) \o "/" \o i \o ".sh"
DescriptorOf(i, s) == StartupDir(s) \o "/" \o i \o ".desktop"
KeyFiles(i, s) == {LauncherOf(i, s), DescriptorOf(i, s)}
Keys == Identifiers \X Scopes

\* the key the current/last call of caller c is about
KeyI(c) == call[c].identifier
KeyS(c) == call[c].system_wide

\* the last call of caller c was op and has returned / has ended either way
Done(c, op) == pc[c] = "idle" /\ call[c].op = op /\ ret[c].kind = "return"
Ended(c, op) == pc[c] = "idle" /\ call[c].op = op

\* a launcher as add(i, script, interp, s, args) is documented to leave it
ExpectedLauncher(c) ==
    [mode |-> 493,
     content |-> "#!/bin/bash\n\n" \o call[c].interpreter \o " "
                    \o call[c].script_location \o " " \o call[c].arguments
                    \o "\n"]

ExpectedDescriptor(c) ==
    [mode |-> 420,
     content |-> "[Desktop Entry]\nType=Application\nName=" \o KeyI(c)
                    \o "\nExec=" \o LauncherOf(KeyI(c), KeyS(c)) \o "\n"]

\* the (Name, Exec) pairs a descriptor text parses to
DescriptorFields(text) ==
    {f \in Identifiers \X ({LauncherOf(k[1], k[2]) : k \in Keys}
                            \cup {StartupDir(k[2]) \o "/" \o k[1] : k \in Keys}) :
        text = "[Desktop Entry]\nType=Application\nName=" \o f[1]
                    \o "\nExec=" \o f[2] \o "\n"}

(***************************************************************************)
(* Properties                                                              *)
(***************************************************************************)

\* C1: from any prior state of the startup directories, once add(i, ..., s)
\* has returned (no filesystem failure), check(i, s) is true.
C1_AddThenCheck ==
    \A c \in Callers :
        Done(c, "add") =>
            /\ check(KeyI(c), KeyS(c)) = TRUE
            /\ DescriptorOf(KeyI(c), KeyS(c)) \in DOMAIN fs

\* an add that returned although its startup directory did not exist before
C1_Witness ==
    /\ Done(1, "add")
    /\ StartupDir(KeyS(1)) \notin pre[1].dirs
    /\ check(KeyI(1), KeyS(1))

\* C2: when both files of (i, s) exist and remove(i, s) returns, both files
\* are gone, remove returned True and check(i, s) is false.
C2_RemoveRegistered ==
    \A c \in Callers :
        (Done(c, "remove") /\ KeyFiles(KeyI(c), KeyS(c)) \subseteq DOMAIN pre[c].fs)
            => /\ KeyFiles(KeyI(c), KeyS(c)) \cap DOMAIN fs = {}
               /\ ret[c].value = "True"
               /\ check(KeyI(c), KeyS(c)) = FALSE

C2_Witness ==
    /\ Done(1, "remove")
    /\ KeyFiles(KeyI(1), KeyS(1)) \subseteq DOMAIN pre[1].fs
    /\ KeyFiles(KeyI(1), KeyS(1)) \cap DOMAIN fs = {}

\* C3: check(i, s) is true exactly when <dir(s)>/<i>.desktop exists, whatever
\* the launcher's state; a call of check always returns, never raises, also
\* when the startup directory is missing, and returns that same answer.
C3_CheckIffDescriptor ==
    /\ \A k \in Keys :
        check(k[1], k[2]) = (DescriptorOf(k[1], k[2]) \in DOMAIN fs)
    /\ \A c \in Callers :
        Ended(c, "check") =>
            /\ ret[c].kind = "return"
            /\ ret[c].value =
                IF DescriptorOf(KeyI(c), KeyS(c)) \in DOMAIN pre[c].fs
                THEN "True" ELSE "False"
            /\ StartupDir(KeyS(c)) \notin pre[c].dirs => ret[c].value = "False"

\* check answered True for a descriptor whose launcher does not exist
C3_Witness ==
    /\ Done(1, "check")
    /\ ret[1].value = "True"
    /\ LauncherOf(KeyI(1), KeyS(1)) \notin DOMAIN fs

\* C5: at every point of an add or remove on (i, s), every file other than
\* the two of (i, s) is as it was when the call started, no directory went
\* away, only directories on the way to dir(s) were created (none by
\* remove), and check answers for every other key as it did before.
C5_Frame ==
    \A c \in Callers :
        call[c].op \in {"add", "remove"} =>
            LET mine == KeyFiles(KeyI(c), KeyS(c)) IN
            /\ DOMAIN fs \ mine = DOMAIN pre[c].fs \ mine
            /\ \A p \in DOMAIN fs \ mine : fs[p] = pre[c].fs[p]
            /\ pre[c].dirs \subseteq dirs
            /\ \A d \in dirs \ pre[c].dirs :
                /\ call[c].op = "add"
                /\ d \in {StartupDir(KeyS(c)), "/home/user/.config"}
                /\ d # StartupDir(~KeyS(c))
            /\ \A k \in Keys :
                k # <<KeyI(c), KeyS(c)>> =>
                    check(k[1], k[2]) = check_at(pre[c], k[1], k[2])

\* an add that rewrote its own two files while the same identifier in the
\* other scope and the other identifier in the same scope stayed registered
C5_Witness ==
    /\ Done(1, "add")
    /\ KeyI(1) = "build"
    /\ KeyFiles("build", ~KeyS(1)) \subseteq DOMAIN fs
    /\ KeyFiles("sync", KeyS(1)) \subseteq DOMAIN fs
    /\ LauncherOf("build", KeyS(1)) \in DOMAIN pre[1].fs
    /\ fs[LauncherOf("build", KeyS(1))] # pre[1].fs[LauncherOf("build", KeyS(1))]

\* C7: after add(i, script, interp, s, args) has returned, <dir(s)>/<i>.sh
\* has mode 0755 and the text '#!/bin/bash\n\n<interp> <script> <args>\n',
\* and <dir(s)>/<i>.desktop names i and points Exec at that launcher, which
\* exists.
C7_AddContents ==
    \A c \in Callers :
        Done(c, "add") =>
            LET l == LauncherOf(KeyI(c), KeyS(c))
                d == DescriptorOf(KeyI(c), KeyS(c)) IN
            /\ {l, d} \subseteq DOMAIN fs
            /\ fs[l] = ExpectedLauncher(c)
            /\ DescriptorFields(fs[d].content) = {<<KeyI(c), l>>}
            /\ \A f \in DescriptorFields(fs[d].content) : f[2] \in DOMAIN fs

\* add("build", "/opt/build.sh", "python3", per-user, "-v") where no launcher
\* existed before
C7_Witness ==
    /\ Done(1, "add")
    /\ call[1] = [op |-> "add", identifier |-> "build",
                  script_location |-> "/opt/build.sh",
                  interpreter |-> "python3", system_wide |-> FALSE,
                  arguments |-> "-v"]
    /\ LauncherOf("build", FALSE) \notin DOMAIN pre[1].fs
    /\ fs[LauncherOf("build", FALSE)] =
        [mode |-> 493, content |-> "#!/bin/bash\n\npython3 /opt/build.sh -v\n"]
    /\ fs[DescriptorOf("build", FALSE)].content =
        "[Desktop Entry]\nType=Application\nName=build\nExec=/home/user/.config/autostart/build.sh\n"

\* C8: add goes directory, launcher, chmod, descriptor and undoes nothing.
\* For an add that started with neither file of its key, at every point
\* (running, failed or returned): a launcher implies its directory, a
\* descriptor implies the launcher, complete and with mode 0755; and an add
\* that failed at the chmod or at the opening of the descriptor leaves the
\* launcher and no descriptor, so check is false.
C8_AddOrder ==
    \A c \in Callers :
        (call[c].op = "add"
            /\ KeyFiles(KeyI(c), KeyS(c)) \cap DOMAIN pre[c].fs = {}) =>
            LET l == LauncherOf(KeyI(c), KeyS(c))
                d == DescriptorOf(KeyI(c), KeyS(c)) IN
            /\ l \in DOMAIN fs => StartupDir(KeyS(c)) \in dirs
            /\ d \in DOMAIN fs => (l \in DOMAIN fs /\ fs[l] = ExpectedLauncher(c))
            /\ (Ended(c, "add") /\ ret[c].kind = "raise"
                    /\ ret[c].at \in {"chmod", "open_desktop"}) =>
                /\ l \in DOMAIN fs
                /\ fs[l].content = ExpectedLauncher(c).content
                /\ d \notin DOMAIN fs
                /\ check(KeyI(c), KeyS(c)) = FALSE

\* an add that failed at its chmod: the launcher is orphaned
C8_Witness ==
    /\ Ended(1, "add")
    /\ ret[1].kind = "raise"
    /\ ret[1].at = "chmod"
    /\ KeyFiles(KeyI(1), KeyS(1)) \cap DOMAIN pre[1].fs = {}
    /\ LauncherOf(KeyI(1), KeyS(1)) \in DOMAIN fs
    /\ ~check(KeyI(1), KeyS(1))

\* the state of a key: "absent", "enabled" (both files) or "partial"
KeyState(files, i, s) ==
    IF KeyFiles(i, s) \cap DOMAIN files = {} THEN "absent"
    ELSE IF KeyFiles(i, s) \subseteq DOMAIN files THEN "enabled"
    ELSE "partial"

C4_Returns ==
    \A c \in Callers :
        (Ended(c, "remove")
            /\ KeyFiles(KeyI(c), KeyS(c)) \cap DOMAIN pre[c].fs = {}) =>
            /\ ret[c] = Returned("True")
            /\ fs = pre[c].fs
            /\ dirs = pre[c].dirs

C4_Again ==
    \A c \in Callers :
        (Done(c, "remove") /\ pc'[c] = "remove_list"
            /\ call'[c].identifier = KeyI(c) /\ call'[c].system_wide = KeyS(c))
            => KeyFiles(KeyI(c), KeyS(c)) \cap DOMAIN pre'[c].fs = {}

C6_AddOverwrites ==
    \A c \in Callers :
        Done(c, "add") =>
            LET l == LauncherOf(KeyI(c), KeyS(c))
                d == DescriptorOf(KeyI(c), KeyS(c)) IN
            /\ DOMAIN fs = DOMAIN pre[c].fs \cup {l, d}
            /\ fs[l] = ExpectedLauncher(c)
            /\ fs[d] = ExpectedDescriptor(c)
            /\ ({l, d} \subseteq DOMAIN pre[c].fs
                    /\ pre[c].fs[l] = ExpectedLauncher(c)
                    /\ pre[c].fs[d] = ExpectedDescriptor(c)) =>
                (fs = pre[c].fs /\ dirs = pre[c].dirs)

\* a second add on a key, with another interpreter than the first
C6_Witness ==
    /\ Done(1, "add")
    /\ KeyFiles(KeyI(1), KeyS(1)) \subseteq DOMAIN pre[1].fs
    /\ pre[1].fs[LauncherOf(KeyI(1), KeyS(1))].content # ExpectedLauncher(1).content
    /\ fs[LauncherOf(KeyI(1), KeyS(1))] = ExpectedLauncher(1)
    /\ Cardinality(DOMAIN fs) = 2

\* C9: for one caller on a machine that starts with no registration, with no
\* failing call: between calls every key has both files or none; during a
\* call only that call's key can be partial; a returned add leaves its key
\* enabled, a returned remove leaves it absent, check leaves all unchanged.
C9_Pairing ==
    /\ \A k \in Keys :
        KeyState(fs, k[1], k[2]) = "partial" =>
            \E c \in Callers : pc[c] # "idle" /\ k = <<KeyI(c), KeyS(c)>>
    /\ \A c \in Callers :
        /\ Done(c, "add") => KeyState(fs, KeyI(c), KeyS(c)) = "enabled"
        /\ Done(c, "remove") => KeyState(fs, KeyI(c), KeyS(c)) = "absent"
        /\ Ended(c, "check") => (fs = pre[c].fs /\ dirs = pre[c].dirs)
        /\ pc[c] = "idle" => ret[c].kind # "raise"

\* a remove returned for a key that an earlier add had enabled
C9_Witness ==
    /\ Done(1, "remove")
    /\ KeyState(pre[1].fs, KeyI(1), KeyS(1)) = "enabled"
    /\ KeyState(fs, KeyI(1), KeyS(1)) = "absent"

\* C10: when an add and a remove of the same key by two callers interleave
\* and both return leaving the descriptor without its launcher, check(i, s)
\* is true while the launcher its Exec line names does not exist.
C10_RaceDangling ==
    (/\ Done(1, "add")
     /\ Done(2, "remove")
     /\ KeyI(1) = KeyI(2) /\ KeyS(1) = KeyS(2)
     /\ DescriptorOf(KeyI(1), KeyS(1)) \in DOMAIN fs
     /\ LauncherOf(KeyI(1), KeyS(1)) \notin DOMAIN fs) =>
        LET d == DescriptorOf(KeyI(1), KeyS(1)) IN
        /\ check(KeyI(1), KeyS(1)) = TRUE
        /\ ret[2].value = "True"
        /\ DescriptorFields(fs[d].content) # {}
        /\ \A f \in DescriptorFields(fs[d].content) :
            f[2] = LauncherOf(KeyI(1), KeyS(1)) /\ f[2] \notin DOMAIN fs

\* both calls returned, the key had no file when either started, and the
\* descriptor is left without the launcher that the add had written
C10_Witness ==
    /\ Done(1, "add")
    /\ Done(2, "remove")
    /\ KeyI(1) = KeyI(2) /\ KeyS(1) = KeyS(2)
    /\ KeyState(pre[1].fs, KeyI(1), KeyS(1)) = "absent"
    /\ DescriptorOf(KeyI(1), KeyS(1)) \in DOMAIN fs
    /\ LauncherOf(KeyI(1), KeyS(1)) \notin DOMAIN fs
    /\ check(KeyI(1), KeyS(1))

\* the other lone file: both calls returned and only the launcher is left
C10_LauncherOnly ==
    /\ Done(1, "add")
    /\ Done(2, "remove")
    /\ KeyI(1) = KeyI(2) /\ KeyS(1) = KeyS(2)
    /\ DescriptorOf(KeyI(1), KeyS(1)) \notin DOMAIN fs
    /\ LauncherOf(KeyI(1), KeyS(1)) \in DOMAIN fs

C10_NeverLauncherOnly == ~C10_LauncherOnly

====
